---- MODULE Spec2Model ----
(***************************************************************************)
(* Model of the reshaping / labelling / aggregation pipeline of utils.py:  *)
(* filter_by_parent_edu, filter_one_parent, make_long, map_and_order_edu,  *)
(* compute_summary_stats and compute_percent, applied by a caller to the   *)
(* table it was given and to the table it is currently working on.         *)
(*                                                                         *)
(* A table (pandas DataFrame) is a record                                  *)
(*   columns : the column names, in order                                  *)
(*   dtypes  : column -> "int64" | "float64" | "object" | "category"       *)
(*   cats    : categorical column -> [categories, ordered]                 *)
(*   index   : the row labels, in row order                                *)
(*   rows    : the rows, each a function column -> cell                    *)
(* float64 cells are exact rationals <<numerator, denominator>> in lowest  *)
(* terms (binary rounding is not modelled); the missing value of an object *)
(* or category column is NaN.                                              *)
(***************************************************************************)
EXTENDS Integers, Sequences, FiniteSets, TLC

VARIABLES heap, last

vars == <<heap, last>>

(* ------------------------------ bounds -------------------------------- *)

\* Largest number of rows of the table the input provider supplies.
MaxRows == 3

(* ------------------------------- inputs ------------------------------- *)

\* The education codes of the input: 2 and 3 have a label in both label
\* maps, 6 has a label in neither.
Codes == {2, 3, 6}

\* The rows the input provider draws from (Mother_edu_code,
\* Father_edu_code, Target, Age); the first is the first row of dummy_df.
WideRows ==
    { << 2, 2, "Graduate", 20 >>,
      << 2, 3, "Dropout", 23 >>,
      << 6, 2, "Graduate", 22 >> }

\* The codes the caller filters by.
FilterCodes == {2, 3}

(* ----------------------------- constants ------------------------------ *)

\* Python's None, the default of father_code; no education code is negative.
None == -1

\* The missing value pandas puts where a label is unassigned.
NaN == "NaN"

EDU_LABELS ==
    (2 :> "Some Level of Elementary School") @@
    (3 :> "Completed Elementary School") @@
    (4 :> "Completed Middle School") @@
    (5 :> "Completed High School") @@
    (7 :> "Completed their Bachelors Degree")

EDU_ORDER ==
    << "Some Level of Elementary School",
       "Completed Elementary School",
       "Completed Middle School",
       "Completed High School",
       "Completed their Bachelors Degree" >>

\* The label map and order of test_map_and_order_edu.
TEST_LABELS ==
    (2 :> "Elementary") @@ (3 :> "Middle") @@ (5 :> "High")

TEST_ORDER ==
    << "Elementary", "Middle", "High" >>

\* The (labels, order) pairs the caller passes to map_and_order_edu.
LabelConfigs ==
    { [labels |-> EDU_LABELS, order |-> EDU_ORDER],
      [labels |-> TEST_LABELS, order |-> TEST_ORDER] }

\* Default of make_long's parent_cols.
PARENT_COLS == << "Mother_edu_code", "Father_edu_code" >>

\* Python's order of the strings that occur in object columns used as
\* grouping keys (str comparison, which TLC does not have).
StrOrder == << "Dropout", "Father", "Graduate", "Mother" >>

(* --------------------------- generic helpers -------------------------- *)

Range(s) == { s[i] : i \in 1..Len(s) }

RECURSIVE IndexOf(_, _, _)
IndexOf(s, x, i) ==
    IF i > Len(s) THEN 0
    ELSE IF s[i] = x THEN i
    ELSE IndexOf(s, x, i + 1)

RECURSIVE SumSeq(_)
SumSeq(s) == IF s = << >> THEN 0 ELSE Head(s) + SumSeq(Tail(s))

RECURSIVE GCD(_, _)
GCD(a, b) == IF b = 0 THEN a ELSE GCD(b, a % b)

\* The exact value n / d (d > 0, n >= 0) in lowest terms.
Rat(n, d) ==
    LET g == GCD(n, d) IN << n \div g, d \div g >>

RatAdd(a, b) == Rat(a[1] * b[2] + b[1] * a[2], a[2] * b[2])

RatDiv(a, k) == Rat(a[1], a[2] * k)

RatLess(a, b) == a[1] * b[2] < b[1] * a[2]

RECURSIVE RatSum(_)
RatSum(s) == IF s = << >> THEN Rat(0, 1) ELSE RatAdd(Head(s), RatSum(Tail(s)))

\* s with x inserted before the first element that is greater (s sorted).
RECURSIVE RatInsert(_, _)
RatInsert(x, s) ==
    IF s = << >> THEN << x >>
    ELSE IF RatLess(x, Head(s)) THEN << x >> \o s
    ELSE << Head(s) >> \o RatInsert(x, Tail(s))

RECURSIVE RatSort(_)
RatSort(s) == IF s = << >> THEN << >> ELSE RatInsert(Head(s), RatSort(Tail(s)))

(* ------------------------------- tables ------------------------------- *)

HasCol(df, c) == c \in Range(df.columns)

NRows(df) == Len(df.rows)

\* The cell as a float (astype(float64) of a numeric column).
AsFloat(df, c, v) == IF df.dtypes[c] = "int64" THEN Rat(v, 1) ELSE v

\* pandas' isna on one cell: only object and category columns hold NaN.
IsNa(df, c, v) == df.dtypes[c] \in {"object", "category"} /\ v = NaN

\* The positions of s, in order, at which keep holds.
RECURSIVE Positions(_, _, _)
Positions(n, keep, i) ==
    IF i > n THEN << >>
    ELSE IF keep[i] THEN << i >> \o Positions(n, keep, i + 1)
    ELSE Positions(n, keep, i + 1)

\* df[mask]: a new table of the rows whose mask is TRUE, with their labels.
BoolIndex(df, mask) ==
    LET pos == Positions(NRows(df), mask, 1) IN
    [ columns |-> df.columns,
      dtypes  |-> df.dtypes,
      cats    |-> df.cats,
      index   |-> [k \in 1..Len(pos) |-> df.index[pos[k]]],
      rows    |-> [k \in 1..Len(pos) |-> df.rows[pos[k]]] ]

\* The outcome of a call that returned a table / that raised.
Ok(t) == [status |-> "ok", key |-> "", table |-> t]

\* No column is categorical.
NoCats == [c \in {} |-> << >>]

NoTable ==
    [ columns |-> << >>, dtypes |-> NoCats, cats |-> NoCats,
      index |-> << >>, rows |-> << >> ]

\* The call raised and returned nothing; key is the column it did not find.
Raise(kind, key) == [status |-> kind, key |-> key, table |-> NoTable]

\* f restricted to the elements of S in its domain.
Restrict(f, S) == [c \in (DOMAIN f) \cap S |-> f[c]]

\* df[c] = values: overwrites column c in place, or appends it.
SetColumn(df, c, dtype, cat, values) ==
    [ columns |-> IF HasCol(df, c) THEN df.columns ELSE Append(df.columns, c),
      dtypes  |-> (c :> dtype) @@ df.dtypes,
      cats    |-> IF dtype = "category"
                  THEN (c :> cat) @@ df.cats
                  ELSE Restrict(df.cats, (DOMAIN df.cats) \ {c}),
      index   |-> df.index,
      rows    |-> [i \in 1..NRows(df) |-> (c :> values[i]) @@ df.rows[i]] ]

\* The first column of cols that df lacks (cols is not all in df).
RECURSIVE FirstMissing(_, _)
FirstMissing(df, cols) ==
    IF HasCol(df, Head(cols)) THEN FirstMissing(df, Tail(cols)) ELSE Head(cols)

HasAll(df, cols) == \A k \in 1..Len(cols) : HasCol(df, cols[k])

(* ------------------------------ Selector ------------------------------ *)

\* filter_by_parent_edu with | where the code has &.
filter_by_parent_edu_or(df, mother_code, father_code) ==
    LET fc == IF father_code = None THEN mother_code ELSE father_code IN
    IF ~HasCol(df, "Mother_edu_code") THEN Raise("KeyError", "Mother_edu_code")
    ELSE IF ~HasCol(df, "Father_edu_code") THEN Raise("KeyError", "Father_edu_code")
    ELSE Ok(BoolIndex(df, [i \in 1..NRows(df) |->
                \/ df.rows[i]["Mother_edu_code"] = mother_code
                \/ df.rows[i]["Father_edu_code"] = fc]))

filter_by_parent_edu(df, mother_code, father_code) ==
    LET fc == IF father_code = None THEN mother_code ELSE father_code IN
    IF ~HasCol(df, "Mother_edu_code") THEN Raise("KeyError", "Mother_edu_code")
    ELSE IF ~HasCol(df, "Father_edu_code") THEN Raise("KeyError", "Father_edu_code")
    ELSE Ok(BoolIndex(df, [i \in 1..NRows(df) |->
                /\ df.rows[i]["Mother_edu_code"] = mother_code
                /\ df.rows[i]["Father_edu_code"] = fc]))

filter_one_parent(df, parent, parent_code) ==
    IF ~HasCol(df, parent) THEN Raise("KeyError", parent)
    ELSE Ok(BoolIndex(df, [i \in 1..NRows(df) |->
                df.rows[i][parent] = parent_code]))

(* ------------------------------ Reshaper ------------------------------ *)

\* OneParent without the column selection: every column of df that is not a
\* parent column is kept.
OneParentKeepAll(df, value_col, parent_col, who) ==
    LET kept == SelectSeq(df.columns, LAMBDA c : c \notin Range(PARENT_COLS)) IN
    [ columns |-> kept \o << "Edu_code", "Parent" >>,
      dtypes  |-> ("Edu_code" :> df.dtypes[parent_col]) @@ ("Parent" :> "object") @@
                  Restrict(df.dtypes, Range(kept)),
      cats    |-> Restrict(df.cats, Range(kept)),
      index   |-> df.index,
      rows    |-> [i \in 1..NRows(df) |->
                    ("Edu_code" :> df.rows[i][parent_col]) @@ ("Parent" :> who) @@
                    Restrict(df.rows[i], Range(kept))] ]

\* df[[value_col, parent_col]].rename(columns={parent_col: "Edu_code"})
\*     .assign(Parent=who)
OneParent(df, value_col, parent_col, who) ==
    [ columns |-> << value_col, "Edu_code", "Parent" >>,
      dtypes  |-> (value_col :> df.dtypes[value_col]) @@
                  ("Edu_code" :> df.dtypes[parent_col]) @@
                  ("Parent" :> "object"),
      cats    |-> Restrict(df.cats, {value_col}),
      index   |-> df.index,
      rows    |-> [i \in 1..NRows(df) |->
                    (value_col :> df.rows[i][value_col]) @@
                    ("Edu_code" :> df.rows[i][parent_col]) @@
                    ("Parent" :> who)] ]

\* pd.concat([a, b]) of two tables with the same columns.
Concat(a, b) ==
    [ columns |-> a.columns,
      dtypes  |-> a.dtypes,
      cats    |-> a.cats,
      index   |-> a.index \o b.index,
      rows    |-> a.rows \o b.rows ]

\* make_long with parent_cols[0] in both halves.
make_long_same_parent(df, value_col, parent_cols) ==
    IF ~HasAll(df, << value_col, parent_cols[1] >>)
    THEN Raise("KeyError", FirstMissing(df, << value_col, parent_cols[1] >>))
    ELSE IF ~HasCol(df, parent_cols[2])
    THEN Raise("KeyError", parent_cols[2])
    ELSE Ok(Concat(OneParent(df, value_col, parent_cols[1], "Mother"),
                   OneParent(df, value_col, parent_cols[1], "Father")))

make_long(df, value_col, parent_cols) ==
    IF ~HasAll(df, << value_col, parent_cols[1] >>)
    THEN Raise("KeyError", FirstMissing(df, << value_col, parent_cols[1] >>))
    ELSE IF ~HasCol(df, parent_cols[2])
    THEN Raise("KeyError", parent_cols[2])
    ELSE Ok(Concat(OneParent(df, value_col, parent_cols[1], "Mother"),
                   OneParent(df, value_col, parent_cols[2], "Father")))

(* ----------------------------- Categorizer ---------------------------- *)

\* Series.map(labels) for a dict: a key without an entry gives NaN.
MapLabel(labels, code) == IF code \in DOMAIN labels THEN labels[code] ELSE NaN

\* pd.Categorical(values, categories=order): a value outside order is NaN.
ToCategory(order, v) == IF v \in Range(order) THEN v ELSE NaN

Unique(order) == \A i, j \in 1..Len(order) : order[i] = order[j] => i = j

\* map_and_order_edu without categories=order: the categories are the
\* labels that occur.
map_and_order_edu_observed(df, edu_col, label_col, labels, order) ==
    IF ~HasCol(df, edu_col) THEN Raise("KeyError", edu_col)
    ELSE
      LET mapped == [i \in 1..NRows(df) |-> MapLabel(labels, df.rows[i][edu_col])]
          seen   == SelectSeq(order, LAMBDA x : \E i \in 1..NRows(df) : mapped[i] = x)
      IN Ok(SetColumn(df, label_col, "category",
                      [categories |-> seen, ordered |-> TRUE],
                      [i \in 1..NRows(df) |-> ToCategory(order, mapped[i])]))

\* map_and_order_edu reading the code column with df.get: a missing column
\* gives an all-unassigned label column.
map_and_order_edu_get(df, edu_col, label_col, labels, order) ==
    LET mapped == [i \in 1..NRows(df) |->
                     IF HasCol(df, edu_col)
                     THEN MapLabel(labels, df.rows[i][edu_col]) ELSE NaN]
    IN Ok(SetColumn(df, label_col, "category",
                    [categories |-> order, ordered |-> TRUE],
                    [i \in 1..NRows(df) |-> ToCategory(order, mapped[i])]))

\* The table is changed in place: the result's table is df after the call.
map_and_order_edu(df, edu_col, label_col, labels, order) ==
    IF ~HasCol(df, edu_col) THEN Raise("KeyError", edu_col)
    ELSE
      LET mapped == [i \in 1..NRows(df) |-> MapLabel(labels, df.rows[i][edu_col])]
          df1    == SetColumn(df, label_col, "object", NoCats, mapped)
      IN IF ~Unique(order)
         THEN [status |-> "ValueError", key |-> label_col, table |-> df1]
         ELSE Ok(SetColumn(df1, label_col, "category",
                           [categories |-> order, ordered |-> TRUE],
                           [i \in 1..NRows(df) |-> ToCategory(order, mapped[i])]))

(* ----------------------------- Aggregator ----------------------------- *)

\* The row's values in the key columns.
KeyOf(row, keys) == [k \in 1..Len(keys) |-> row[keys[k]]]

\* groupby(..., dropna=False): a missing key is a group of its own.
InSomeGroupKeepNa(df, keys, i) == i \in 1..NRows(df)

\* groupby(..., dropna=True): a row with a missing key is in no group.
InSomeGroup(df, keys, i) ==
    \A k \in 1..Len(keys) : ~IsNa(df, keys[k], df.rows[i][keys[k]])

\* The position of a key value in the sort order of its column: the
\* category order for a categorical, the string order otherwise.
Rank(df, c, v) ==
    IF df.dtypes[c] = "category"
    THEN IndexOf(df.cats[c].categories, v, 1)
    ELSE IndexOf(StrOrder, v, 1)

RECURSIVE KeyLess(_, _, _, _, _)
KeyLess(df, keys, a, b, k) ==
    IF k > Len(keys) THEN FALSE
    ELSE IF Rank(df, keys[k], a[k]) < Rank(df, keys[k], b[k]) THEN TRUE
    ELSE IF Rank(df, keys[k], a[k]) > Rank(df, keys[k], b[k]) THEN FALSE
    ELSE KeyLess(df, keys, a, b, k + 1)

RECURSIVE SortKeys(_, _, _)
SortKeys(df, keys, S) ==
    IF S = {} THEN << >>
    ELSE LET m == CHOOSE x \in S : \A y \in S \ {x} : KeyLess(df, keys, x, y, 1)
         IN << m >> \o SortKeys(df, keys, S \ {m})

\* groupby(keys, observed=True) with the default sort=True: the key tuples
\* that occur in the data, in sorted order.
GroupKeys(df, keys) ==
    SortKeys(df, keys,
             { KeyOf(df.rows[i], keys) :
                   i \in { j \in 1..NRows(df) : InSomeGroup(df, keys, j) } })

\* The positions of the rows of group g, in row order.
GroupRows(df, keys, g) ==
    Positions(NRows(df),
              [i \in 1..NRows(df) |->
                   InSomeGroup(df, keys, i) /\ KeyOf(df.rows[i], keys) = g],
              1)

\* The cells of column c at the positions pos, as floats.
Cells(df, c, pos) == [k \in 1..Len(pos) |-> AsFloat(df, c, df.rows[pos[k]][c])]

\* "sum" where the code has "mean".
MeanAsSum(vals) == RatSum(vals)

Mean(vals) == RatDiv(RatSum(vals), Len(vals))

\* The lower middle value, not the average, for an even-sized group.
MedianLower(vals) ==
    LET s == RatSort(vals) IN s[(Len(s) + 1) \div 2]

Median(vals) ==
    LET s == RatSort(vals)
        n == Len(s)
    IN IF n % 2 = 1 THEN s[(n + 1) \div 2]
       ELSE RatDiv(RatAdd(s[n \div 2], s[n \div 2 + 1]), 2)

\* The key columns of a grouped result after reset_index.
KeyPart(df, keys, g) == [c \in Range(keys) |-> g[IndexOf(keys, c, 1)]]

RangeIndex(n) == [i \in 1..n |-> i - 1]

compute_summary_stats(df, value_col) ==
    LET keys == << "Parent", "Education Level" >> IN
    IF ~HasAll(df, keys) THEN Raise("KeyError", FirstMissing(df, keys))
    ELSE IF ~HasCol(df, value_col) THEN Raise("KeyError", value_col)
    ELSE
      LET groups == GroupKeys(df, keys)
          n      == Len(groups)
          vals(g) == Cells(df, value_col, GroupRows(df, keys, g))
          \* melt: every Mean_Age row, then every Median_Age row
          stat(i) == IF i <= n THEN "Mean" ELSE "Median"
          grp(i)  == IF i <= n THEN groups[i] ELSE groups[i - n]
      IN Ok([ columns |-> keys \o << "Statistic", value_col >>,
              dtypes  |-> (value_col :> "float64") @@ ("Statistic" :> "object") @@
                          Restrict(df.dtypes, Range(keys)),
              cats    |-> Restrict(df.cats, Range(keys)),
              index   |-> RangeIndex(2 * n),
              rows    |-> [i \in 1..(2 * n) |->
                            (value_col :> IF i <= n THEN Mean(vals(grp(i)))
                                          ELSE Median(vals(grp(i)))) @@
                            ("Statistic" :> stat(i)) @@
                            KeyPart(df, keys, grp(i))] ])

\* groupby(keys).size().reset_index(name="Count")
SizeTable(df, keys) ==
    LET groups == GroupKeys(df, keys) IN
    [ columns |-> keys \o << "Count" >>,
      dtypes  |-> ("Count" :> "int64") @@ Restrict(df.dtypes, Range(keys)),
      cats    |-> Restrict(df.cats, Range(keys)),
      index   |-> RangeIndex(Len(groups)),
      rows    |-> [i \in 1..Len(groups) |->
                    ("Count" :> Len(GroupRows(df, keys, groups[i]))) @@
                    KeyPart(df, keys, groups[i])] ]

\* The transform grouped by Parent alone.
TransformSumByParent(counts, keys) ==
    [i \in 1..NRows(counts) |->
        LET pos == GroupRows(counts, << "Parent" >>,
                             KeyOf(counts.rows[i], << "Parent" >>))
        IN SumSeq([k \in 1..Len(pos) |-> counts.rows[pos[k]]["Count"]])]

\* counts.groupby(keys)["Count"].transform("sum"): for each row the sum of
\* Count over the rows of its group.
TransformSum(counts, keys) ==
    [i \in 1..NRows(counts) |->
        LET pos == GroupRows(counts, keys, KeyOf(counts.rows[i], keys))
        IN SumSeq([k \in 1..Len(pos) |-> counts.rows[pos[k]]["Count"]])]

compute_percent(df, target_col) ==
    LET keys == << "Parent", "Education Level", target_col >> IN
    IF ~HasAll(df, keys) THEN Raise("KeyError", FirstMissing(df, keys))
    ELSE
      LET counts == SizeTable(df, keys)
          total  == TransformSum(counts, << "Parent", "Education Level" >>)
      IN Ok(SetColumn(counts, "Percent", "float64", NoCats,
                      [i \in 1..NRows(counts) |->
                          Rat(counts.rows[i]["Count"] * 100, total[i])]))

(* ------------------------------- caller ------------------------------- *)

\* The table the input provider supplies (the columns of dummy_df).
WideTable(s) ==
    [ columns |-> << "Mother_edu_code", "Father_edu_code", "Target", "Age" >>,
      dtypes  |-> ("Mother_edu_code" :> "int64") @@ ("Father_edu_code" :> "int64") @@
                  ("Target" :> "object") @@ ("Age" :> "int64"),
      cats    |-> NoCats,
      index   |-> RangeIndex(Len(s)),
      rows    |-> [i \in 1..Len(s) |->
                    ("Mother_edu_code" :> s[i][1]) @@ ("Father_edu_code" :> s[i][2]) @@
                    ("Target" :> s[i][3]) @@ ("Age" :> s[i][4])] ]

WideTables ==
    { WideTable(s) : s \in UNION { [1..n -> WideRows] : n \in 0..MaxRows } }

\* The columns the caller names in its calls.
ValueCols == {"Age", "Target"}

StatCols == {"Age", "Count"}

TargetCols == {"Target"}

EduCols == {"Edu_code"}

LabelCols == {"Education Level"}

\* heap[1] is the table object the caller was given, heap[2] (when there is
\* one) the table object its working name is bound to. last is the latest
\* call: its argument object before and after, and what it returned.
Init ==
    /\ heap \in { << t >> : t \in WideTables }
    /\ last = [ op |-> "none", src |-> 1, args |-> << >>, status |-> "ok",
                key |-> "", ret |-> "none", before |-> NoTable, after |-> NoTable,
                out |-> NoTable ]

\* A call that builds its result from heap[src] and returns it: the caller
\* binds its working name to the new object; the argument is not written.
Returned(op, args, src, r) ==
    /\ heap' = IF r.status = "ok" THEN << heap[1], r.table >> ELSE heap
    /\ last' = [ op |-> op, src |-> src, args |-> args, status |-> r.status,
                 key |-> r.key,
                 ret |-> IF r.status = "ok" THEN "new" ELSE "none",
                 before |-> heap[src], after |-> heap[src], out |-> r.table ]

\* An in-place call made on a copy (df = df.copy() first): the argument is
\* not written and a new object is returned.
InPlaceOnCopy(op, args, src, r) ==
    /\ heap' = IF r.status = "ok" THEN << heap[1], r.table >> ELSE heap
    /\ last' = [ op |-> op, src |-> src, args |-> args, status |-> r.status,
                 key |-> r.key,
                 ret |-> IF r.status = "ok" THEN "new" ELSE "none",
                 before |-> heap[src], after |-> heap[src], out |-> r.table ]

\* A call that writes its argument object heap[src] and returns that object
\* (r.table is the argument after the call, unless the call raised before
\* its first write).
InPlace(op, args, src, r) ==
    LET after == IF r.status = "KeyError" THEN heap[src] ELSE r.table IN
    /\ heap' = [heap EXCEPT ![src] = after]
    /\ last' = [ op |-> op, src |-> src, args |-> args, status |-> r.status,
                 key |-> r.key,
                 ret |-> IF r.status = "ok" THEN "arg" ELSE "none",
                 before |-> heap[src], after |-> after,
                 out |-> IF r.status = "ok" THEN after ELSE NoTable ]

FilterByParentEdu ==
    \E src \in 1..Len(heap), m \in FilterCodes, f \in FilterCodes \cup {None} :
        Returned("filter_by_parent_edu",
                 [mother_code |-> m, father_code |-> f], src,
                 filter_by_parent_edu(heap[src], m, f))

FilterOneParent ==
    \E src \in 1..Len(heap), parent \in Range(PARENT_COLS), code \in FilterCodes :
        Returned("filter_one_parent",
                 [parent |-> parent, parent_code |-> code], src,
                 filter_one_parent(heap[src], parent, code))

MakeLong ==
    \E src \in 1..Len(heap), value_col \in ValueCols :
        Returned("make_long",
                 [value_col |-> value_col, parent_cols |-> PARENT_COLS], src,
                 make_long(heap[src], value_col, PARENT_COLS))

MapAndOrderEdu ==
    \E src \in 1..Len(heap), edu_col \in EduCols, label_col \in LabelCols,
       cfg \in LabelConfigs :
        InPlace("map_and_order_edu",
                [edu_col |-> edu_col, label_col |-> label_col,
                 labels |-> cfg.labels, order |-> cfg.order], src,
                map_and_order_edu(heap[src], edu_col, label_col,
                                  cfg.labels, cfg.order))

ComputeSummaryStats ==
    \E src \in 1..Len(heap), value_col \in StatCols :
        Returned("compute_summary_stats", [value_col |-> value_col], src,
                 compute_summary_stats(heap[src], value_col))

ComputePercent ==
    \E src \in 1..Len(heap), target_col \in TargetCols :
        Returned("compute_percent", [target_col |-> target_col], src,
                 compute_percent(heap[src], target_col))

Next ==
    \/ FilterByParentEdu
    \/ FilterOneParent
    \/ MakeLong
    \/ MapAndOrderEdu
    \/ ComputeSummaryStats
    \/ ComputePercent

Spec == Init /\ [][Next]_vars

(* ======================= properties of the pipeline =================== *)

\* The latest call was op and it returned.
Called(op) == last.op = op /\ last.status = "ok"

\* The positions 1..n that are in S, in increasing order.
InOrder(S, n) == Positions(n, [i \in 1..n |-> i \in S], 1)

\* The rows of T that belong to the (Parent, Education Level) group (p, l).
RowsOfGroup(T, p, l) ==
    { j \in 1..NRows(T) :
        T.rows[j]["Parent"] = p /\ T.rows[j]["Education Level"] = l }

\* The sum of the int column c of T over the rows S.
IntSum(T, c, S) ==
    LET pos == InOrder(S, NRows(T))
    IN SumSeq([k \in 1..Len(pos) |-> T.rows[pos[k]][c]])

\* The cells of the numeric column c of T over the rows S, as floats.
FloatCells(T, c, S) == Cells(T, c, InOrder(S, NRows(T)))

(* ------------------------------------------------------------------ C1 *)
\* C1: after compute_percent, for every (Parent, Education Level) group with
\* at least one input record, the group's output Counts sum to the number
\* of input records of the group, every output row's Percent is
\* 100 * Count / group total, and the group's Percents sum to 100.
C1_PercentSumsTo100 ==
    Called("compute_percent") =>
      LET T == last.before
          P == last.out
      IN \A i \in 1..NRows(T) :
           T.rows[i]["Education Level"] # NaN =>
             LET p   == T.rows[i]["Parent"]
                 l   == T.rows[i]["Education Level"]
                 inn == RowsOfGroup(T, p, l)
                 out == RowsOfGroup(P, p, l)
             IN /\ out # {}
                /\ IntSum(P, "Count", out) = Cardinality(inn)
                /\ \A k \in out :
                     P.rows[k]["Percent"] =
                       Rat(100 * P.rows[k]["Count"], Cardinality(inn))
                /\ RatSum(FloatCells(P, "Percent", out)) = Rat(100, 1)

\* C1 witness: compute_percent returned a group split 2 to 1 between two
\* target values (200/3 % and 100/3 %).
C1_Witness ==
    /\ Called("compute_percent")
    /\ \E k, m \in 1..NRows(last.out) :
         /\ last.out.rows[k]["Parent"] = last.out.rows[m]["Parent"]
         /\ last.out.rows[k]["Education Level"] = last.out.rows[m]["Education Level"]
         /\ last.out.rows[k]["Count"] = 2
         /\ last.out.rows[m]["Count"] = 1

(* ------------------------------------------------------------------ C2 *)
\* R holds exactly the rows of T with Mother_edu_code = m and
\* Father_edu_code = f: none that fails the predicate, none omitted, none
\* twice, each under its own row label.
ExactlyTheRows(T, R, m, f) ==
    LET match(j) == /\ T.rows[j]["Mother_edu_code"] = m
                    /\ T.rows[j]["Father_edu_code"] = f
    IN /\ R.columns = T.columns
       /\ \A k \in 1..NRows(R) :
            /\ R.rows[k]["Mother_edu_code"] = m
            /\ R.rows[k]["Father_edu_code"] = f
       /\ \A j \in 1..NRows(T) :
            match(j) => \E k \in 1..NRows(R) :
                          R.index[k] = T.index[j] /\ R.rows[k] = T.rows[j]
       /\ NRows(R) = Cardinality({ j \in 1..NRows(T) : match(j) })

\* C2: filter_by_parent_edu(T, m, f) returns exactly the rows of T with
\* Mother_edu_code = m and Father_edu_code = f, and with f omitted exactly
\* those with both codes equal to m, the result of the call with f = m.
C2_FilterExact ==
    Called("filter_by_parent_edu") =>
      LET T == last.before
          R == last.out
          m == last.args.mother_code
          f == last.args.father_code
      IN IF f = None
         THEN /\ ExactlyTheRows(T, R, m, m)
              /\ R = filter_by_parent_edu(T, m, m).table
         ELSE ExactlyTheRows(T, R, m, f)

\* C2 witness: a call without father_code that kept a row and left out a
\* row whose mother has the code and whose father has not.
C2_Witness ==
    /\ Called("filter_by_parent_edu")
    /\ last.args.father_code = None
    /\ NRows(last.out) >= 1
    /\ \E j \in 1..NRows(last.before) :
         /\ last.before.rows[j]["Mother_edu_code"] = last.args.mother_code
         /\ last.before.rows[j]["Father_edu_code"] # last.args.mother_code

(* ------------------------------------------------------------------ C3 *)
\* The rows of L tagged who that came from the wide row labelled x.
Tagged(L, who, x) ==
    { k \in 1..NRows(L) : L.index[k] = x /\ L.rows[k]["Parent"] = who }

\* C3: make_long of a table of n rows has 2n rows: for each wide row
\* exactly one Mother row carrying its mother code and exactly one Father
\* row carrying its father code.
C3_RowCountDoubles ==
    Called("make_long") =>
      LET T == last.before
          L == last.out
          n == NRows(T)
      IN /\ NRows(L) = 2 * n
         /\ \A k \in 1..NRows(L) : L.rows[k]["Parent"] \in {"Mother", "Father"}
         /\ \A j \in 1..n :
              /\ Cardinality(Tagged(L, "Mother", T.index[j])) = 1
              /\ Cardinality(Tagged(L, "Father", T.index[j])) = 1
              /\ \A k \in Tagged(L, "Mother", T.index[j]) :
                   L.rows[k]["Edu_code"] = T.rows[j]["Mother_edu_code"]
              /\ \A k \in Tagged(L, "Father", T.index[j]) :
                   L.rows[k]["Edu_code"] = T.rows[j]["Father_edu_code"]

\* C3 witness: make_long returned for a table with two equal rows whose
\* mother and father codes differ (nothing is deduplicated).
C3_Witness ==
    /\ Called("make_long")
    /\ NRows(last.before) >= 2
    /\ last.before.rows[1] = last.before.rows[2]
    /\ last.before.rows[1]["Mother_edu_code"] # last.before.rows[1]["Father_edu_code"]
    /\ NRows(last.out) = 2 * NRows(last.before)

(* ------------------------------------------------------------------ C4 *)
\* Column c of the long table L holds, in both halves, the cells of column
\* c of the wide table T.
Carried(T, L, c) ==
    /\ HasCol(L, c)
    /\ NRows(L) = 2 * NRows(T)
    /\ \A j \in 1..NRows(T) :
         /\ L.rows[j][c] = T.rows[j][c]
         /\ L.rows[NRows(T) + j][c] = T.rows[j][c]

\* C4 as stated: every record of make_long's result inherits every column
\* of its wide row that is not one of the two parent columns (the value
\* column, and Target when the wide table has it).
C4_AllColumnsInherited ==
    Called("make_long") =>
      LET T == last.before
          L == last.out
      IN \A j \in 1..NRows(T) :
           \A c \in Range(T.columns) \ Range(last.args.parent_cols) :
              \A k \in {j, NRows(T) + j} :
                 /\ k \in 1..NRows(L)
                 /\ c \in DOMAIN L.rows[k]
                 /\ L.rows[k][c] = T.rows[j][c]

\* The categorized long table passed to compute_percent with Target.
PercentOfLong(L) ==
    compute_percent(
        map_and_order_edu(L, "Edu_code", "Education Level",
                          EDU_LABELS, EDU_ORDER).table,
        "Target")

\* C4 amended: make_long's result has exactly the columns value_col,
\* Edu_code and Parent; value_col is carried unchanged and every other
\* column of the wide row is dropped, so the result holds Target, and
\* compute_percent accepts it once categorized, only when value_col is
\* Target.
C4_OnlyValueColInherited ==
    Called("make_long") =>
      LET T == last.before
          L == last.out
          v == last.args.value_col
      IN /\ L.columns = << v, "Edu_code", "Parent" >>
         /\ Carried(T, L, v)
         /\ \A k \in 1..NRows(L) : DOMAIN L.rows[k] = {v, "Edu_code", "Parent"}
         /\ HasCol(L, "Target") <=> (v = "Target")
         /\ PercentOfLong(L).status = IF v = "Target" THEN "ok" ELSE "KeyError"

\* C4 witness: make_long with value_col = Age returned for a wide table
\* that has rows and a Target column.
C4_Witness ==
    /\ Called("make_long")
    /\ last.args.value_col = "Age"
    /\ HasCol(last.before, "Target")
    /\ NRows(last.before) >= 1
    /\ ~HasCol(last.out, "Target")

(* ------------------------------------------------------------------ C5 *)
\* C5: after map_and_order_edu the label column is an ordered categorical
\* whose categories are the sequence order, whatever codes occur, and each
\* row whose code has a label holds that label.
C5_CategoryOrder ==
    Called("map_and_order_edu") =>
      LET A  == last.out
          lc == last.args.label_col
          ec == last.args.edu_col
      IN /\ HasCol(A, lc)
         /\ A.dtypes[lc] = "category"
         /\ A.cats[lc].categories = last.args.order
         /\ A.cats[lc].ordered
         /\ NRows(A) = NRows(last.before)
         /\ \A i \in 1..NRows(A) :
              last.before.rows[i][ec] \in DOMAIN last.args.labels =>
                A.rows[i][lc] = last.args.labels[last.before.rows[i][ec]]

\* C5 witness: map_and_order_edu returned a table in which one label of
\* order occurs and another label of order does not.
C5_Witness ==
    /\ Called("map_and_order_edu")
    /\ \E i \in 1..NRows(last.out) :
         last.out.rows[i][last.args.label_col] \in Range(last.args.order)
    /\ \E x \in Range(last.args.order) :
         \A i \in 1..NRows(last.out) : last.out.rows[i][last.args.label_col] # x

(* ------------------------------------------------------------------ C6 *)
\* T without the rows whose Education Level is unassigned.
Labelled(T) ==
    BoolIndex(T, [i \in 1..NRows(T) |-> T.rows[i]["Education Level"] # NaN])

\* C6: map_and_order_edu does not fail on a code without a label and
\* leaves the row's label unassigned; compute_percent and
\* compute_summary_stats then give no row for the unassigned label and
\* exactly the rows they give when the unlabelled rows are removed first.
C6_UnmappedInNoGroup ==
    /\ last.op = "map_and_order_edu" /\ HasCol(last.before, last.args.edu_col) =>
         /\ last.status = "ok"
         /\ \A i \in 1..NRows(last.out) :
              last.before.rows[i][last.args.edu_col] \notin DOMAIN last.args.labels =>
                last.out.rows[i][last.args.label_col] = NaN
    /\ Called("compute_percent") =>
         /\ \A k \in 1..NRows(last.out) : last.out.rows[k]["Education Level"] # NaN
         /\ IntSum(last.out, "Count", 1..NRows(last.out)) = NRows(Labelled(last.before))
         /\ last.out.rows =
              compute_percent(Labelled(last.before), last.args.target_col).table.rows
    /\ Called("compute_summary_stats") =>
         /\ \A k \in 1..NRows(last.out) : last.out.rows[k]["Education Level"] # NaN
         /\ last.out.rows =
              compute_summary_stats(Labelled(last.before), last.args.value_col).table.rows

\* C6 witness: compute_percent returned for a categorized table that has a
\* row with an unassigned label and a row with a label.
C6_Witness ==
    /\ Called("compute_percent")
    /\ HasCol(last.before, "Edu_code")
    /\ \E i, j \in 1..NRows(last.before) :
         /\ last.before.rows[i]["Education Level"] = NaN
         /\ last.before.rows[i]["Edu_code"] \notin DOMAIN EDU_LABELS
         /\ last.before.rows[j]["Education Level"] # NaN

(* ------------------------------------------------------------------ C7 *)
\* The latest call aggregated a compute_percent table by Count.
Reaggregated ==
    /\ Called("compute_summary_stats")
    /\ last.args.value_col = "Count"
    /\ HasCol(last.before, "Percent")

\* C7 as stated: compute_summary_stats on a compute_percent table with
\* Count as the value column reproduces the table's Count values: each
\* output value of a group is the Count of that group's rows.
C7_ReaggregationReproducesCount ==
    Reaggregated =>
      \A s \in 1..NRows(last.out), k \in 1..NRows(last.before) :
         ( /\ last.out.rows[s]["Parent"] = last.before.rows[k]["Parent"]
           /\ last.out.rows[s]["Education Level"] =
                last.before.rows[k]["Education Level"] )
         => last.out.rows[s]["Count"] = Rat(last.before.rows[k]["Count"], 1)

\* C7 amended: the call gives the mean and the median of each group's Count
\* values; these are the original Counts exactly for the groups whose rows
\* all have the same Count (among them the groups with one target value).
C7_ReaggregationMeanMedian ==
    Reaggregated =>
      \A s \in 1..NRows(last.out) :
         LET P == last.before
             G == RowsOfGroup(P, last.out.rows[s]["Parent"],
                              last.out.rows[s]["Education Level"])
             v == last.out.rows[s]["Count"]
             same == \A a, b \in G : P.rows[a]["Count"] = P.rows[b]["Count"]
         IN /\ G # {}
            /\ last.out.rows[s]["Statistic"] = "Mean" =>
                 v[1] * Cardinality(G) = v[2] * IntSum(P, "Count", G)
            /\ same <=> \A k \in G : v = Rat(P.rows[k]["Count"], 1)

\* C7 witness: the call returned for a table with a group of two rows of
\* different Count (not reproduced) and a group of one row (reproduced).
C7_Witness ==
    /\ Reaggregated
    /\ \E a, b \in 1..NRows(last.before) :
         /\ b \in RowsOfGroup(last.before, last.before.rows[a]["Parent"],
                              last.before.rows[a]["Education Level"])
         /\ last.before.rows[a]["Count"] # last.before.rows[b]["Count"]
    /\ \E a \in 1..NRows(last.before) :
         RowsOfGroup(last.before, last.before.rows[a]["Parent"],
                     last.before.rows[a]["Education Level"]) = {a}

(* ------------------------------------------------------------------ C8 *)
PureOps ==
    { "filter_by_parent_edu", "filter_one_parent", "make_long",
      "compute_summary_stats", "compute_percent" }

\* B is A with column c added or overwritten and nothing else changed.
OnlyColumnSet(A, B, c) ==
    /\ B.columns = IF HasCol(A, c) THEN A.columns ELSE Append(A.columns, c)
    /\ B.index = A.index
    /\ NRows(B) = NRows(A)
    /\ \A d \in Range(A.columns) \ {c} :
         /\ B.dtypes[d] = A.dtypes[d]
         /\ (d \in DOMAIN B.cats) = (d \in DOMAIN A.cats)
         /\ d \in DOMAIN A.cats => B.cats[d] = A.cats[d]
         /\ \A i \in 1..NRows(A) : B.rows[i][d] = A.rows[i][d]

\* C8: in every step of every run, a call of one of the five other
\* operations leaves every table object as it was, its argument included,
\* and what it returns is a new object; a call of map_and_order_edu leaves
\* every object but its argument as it was, changes its argument by the
\* label column only, and returns its argument.
C8_OnlyMapMutates ==
    [][ LET src == last'.src IN
        /\ last'.before = heap[src]
        /\ last'.op \in PureOps =>
             /\ heap'[1] = heap[1]
             /\ last'.after = heap[src]
             /\ last'.status = "ok" =>
                  /\ last'.ret = "new"
                  /\ Len(heap') = 2 /\ heap'[2] = last'.out
             /\ last'.status # "ok" => heap' = heap /\ last'.ret = "none"
        /\ last'.op = "map_and_order_edu" =>
             /\ Len(heap') = Len(heap)
             /\ \A k \in 1..Len(heap) : k # src => heap'[k] = heap[k]
             /\ heap'[src] = last'.after
             /\ last'.status = "ok" =>
                  /\ last'.ret = "arg"
                  /\ last'.out = heap'[src]
                  /\ OnlyColumnSet(heap[src], heap'[src], last'.args.label_col)
      ]_vars

\* C8 witness: map_and_order_edu returned its argument, the working table,
\* with a label column the table did not have before.
C8_Witness ==
    /\ Called("map_and_order_edu")
    /\ last.src = 2
    /\ last.ret = "arg"
    /\ ~HasCol(last.before, last.args.label_col)
    /\ HasCol(heap[2], last.args.label_col)
    /\ NRows(heap[2]) >= 1

(* ------------------------------------------------------------------ C9 *)
\* The columns the call must find in its argument table.
RequiredCols(op, args) ==
    CASE op = "filter_by_parent_edu"  -> {"Mother_edu_code", "Father_edu_code"}
      [] op = "filter_one_parent"     -> {args.parent}
      [] op = "make_long"             -> {args.value_col} \cup Range(args.parent_cols)
      [] op = "map_and_order_edu"     -> {args.edu_col}
      [] op = "compute_summary_stats" -> {"Parent", "Education Level", args.value_col}
      [] op = "compute_percent"       -> {"Parent", "Education Level", args.target_col}
      [] OTHER                        -> {}

\* C9: a call whose argument table lacks a required column fails with a
\* KeyError, returns no table, and leaves its argument as it was (no label
\* column is added).
C9_MissingColumnRaises ==
    ( /\ last.op # "none"
      /\ ~(RequiredCols(last.op, last.args) \subseteq Range(last.before.columns)) )
    => /\ last.status = "KeyError"
       /\ last.key \in RequiredCols(last.op, last.args) \ Range(last.before.columns)
       /\ last.ret = "none"
       /\ last.out = NoTable
       /\ last.after = last.before
       /\ heap[last.src] = last.before

\* C9 witness: map_and_order_edu failed on a table with rows and without
\* the code column, and the table has no label column.
C9_Witness ==
    /\ last.op = "map_and_order_edu"
    /\ last.status = "KeyError"
    /\ ~HasCol(last.before, last.args.edu_col)
    /\ NRows(last.before) >= 1
    /\ ~HasCol(heap[last.src], last.args.label_col)

(* ----------------------------------------------------------------- C10 *)
\* The k-th smallest of the floats vals.
Kth(vals, k) ==
    CHOOSE x \in Range(vals) :
      /\ Cardinality({ i \in 1..Len(vals) : ~RatLess(x, vals[i]) }) >= k
      /\ Cardinality({ i \in 1..Len(vals) : ~RatLess(vals[i], x) }) >= Len(vals) - k + 1

\* m is the median of vals: the middle value, or half the sum of the two
\* middle values.
IsMedian(m, vals) ==
    LET n == Len(vals) IN
    IF n % 2 = 1 THEN m = Kth(vals, (n + 1) \div 2)
    ELSE LET lo == Kth(vals, n \div 2)
             hi == Kth(vals, n \div 2 + 1)
         IN m[1] * 2 * lo[2] * hi[2] = m[2] * (lo[1] * hi[2] + hi[1] * lo[2])

\* m is the arithmetic mean of vals.
IsMean(m, vals) ==
    LET tot == RatSum(vals) IN m[1] * tot[2] * Len(vals) = m[2] * tot[1]

\* The rows of the summary S for group (p, l) tagged stat.
StatRows(S, p, l, stat) ==
    { k \in RowsOfGroup(S, p, l) : S.rows[k]["Statistic"] = stat }

\* C10: compute_summary_stats gives, for each (Parent, Education Level)
\* group with a record, one Mean row with the mean of the value column and
\* one Median row with its median, both the record's value when the group
\* has one record, and no row for any other group.
C10_MeanAndMedianPerGroup ==
    Called("compute_summary_stats") =>
      LET T == last.before
          S == last.out
          v == last.args.value_col
      IN /\ \A i \in 1..NRows(T) :
              T.rows[i]["Education Level"] # NaN =>
                LET p    == T.rows[i]["Parent"]
                    l    == T.rows[i]["Education Level"]
                    vals == FloatCells(T, v, RowsOfGroup(T, p, l))
                IN /\ Cardinality(StatRows(S, p, l, "Mean")) = 1
                   /\ Cardinality(StatRows(S, p, l, "Median")) = 1
                   /\ Cardinality(RowsOfGroup(S, p, l)) = 2
                   /\ \A k \in StatRows(S, p, l, "Mean") : IsMean(S.rows[k][v], vals)
                   /\ \A k \in StatRows(S, p, l, "Median") : IsMedian(S.rows[k][v], vals)
                   /\ Len(vals) = 1 =>
                        \A k \in RowsOfGroup(S, p, l) : S.rows[k][v] = vals[1]
         /\ \A k \in 1..NRows(S) :
              RowsOfGroup(T, S.rows[k]["Parent"], S.rows[k]["Education Level"]) # {}

\* C10 witness: compute_summary_stats returned a Mean row and a Median row
\* of one group with different values (a group of three records).
C10_Witness ==
    /\ Called("compute_summary_stats")
    /\ \E a, b \in 1..NRows(last.out) :
         /\ b \in RowsOfGroup(last.out, last.out.rows[a]["Parent"],
                              last.out.rows[a]["Education Level"])
         /\ last.out.rows[a]["Statistic"] = "Mean"
         /\ last.out.rows[b]["Statistic"] = "Median"
         /\ last.out.rows[a][last.args.value_col] # last.out.rows[b][last.args.value_col]

====
